---- MODULE Spec2Model ----
(***************************************************************************)
(* The coalesce engine of carmen-core's gridstore                          *)
(* (rust-src/src/gridstore/coalesce.rs) and its Z-curve bbox filter        *)
(* (rust-src/src/gridstore/spatial.rs).                                    *)
(*                                                                         *)
(* Three programs are modelled, each with its own specification:           *)
(*   Spec      coalesce: dispatch, coalesce_single, coalesce_multi and the *)
(*             finalizing loop of coalesce, on stacks of 0 .. MaxStack     *)
(*             subqueries;                                                 *)
(*   SpecDeep  coalesce on stacks of DeepLen subqueries;                   *)
(*   SpecLift  grid_to_coalesce_entry on the whole width of its inputs;    *)
(*   SpecBbox  bbox_filter and the two runs of bbox_binary_search.         *)
(*                                                                         *)
(* f64 relevances are fixed-point numbers in units of 0.01 (1.0 is 100),   *)
(* so a product relev * weight is (a * b) \div 100.  The values drawn are  *)
(* such that every product is exact.  NaN is not modelled.                 *)
(* A store's get_matching is a cursor: each pull yields the next grid, any *)
(* grid not above the previous one in (relev, scoredist) and not yielded   *)
(* before, or the end.                                                     *)
(***************************************************************************)
EXTENDS Integers, Sequences, FiniteSets, TLC

VARIABLES
    stack,          \* coalesce: Vec<PhrasematchSubquery> (sorted in place by coalesce_multi)
    proximity,      \* match_opts.proximity.is_some()
    pc,             \* position in coalesce
    i,              \* coalesce_multi: position of the subquery being read (1-based)
    pulled,         \* grids pulled from the stores in this call
    cursor,         \* the open stream's last grid and the grids it yielded with
                    \* that grid's relev and scoredist (None before the first pull)
    contexts,       \* the Vec<CoalesceContext> that the loop of coalesce_single / coalesce_multi fills
    coalesced,      \* coalesce_multi: HashMap<(zoom, x, y), Vec<CoalesceContext>>
    built,          \* coalesce_multi: the context built from the last grid read
    max_relev,      \* coalesce_single / coalesce_multi
    last,           \* coalesce_single: [id, relev, scoredist] of the previous accepted entry
    min_scoredist,  \* coalesce_single
    feature_count,  \* coalesce_single
    candidates,     \* coalesce: `contexts`, the list coalesce_single / coalesce_multi returned
    out,            \* coalesce: the result
    lift,           \* SpecLift: the entries grid_to_coalesce_entry has built
    bb              \* SpecBbox: the state of bbox_filter

vars == <<stack, proximity, pc, i, pulled, cursor, contexts, coalesced, built,
          max_relev, last, min_scoredist, feature_count, candidates, out, lift, bb>>

None == [none |-> TRUE]

(***************************************************************************)
(* Bounds of the model.                                                    *)
(***************************************************************************)
\* Subqueries in a stack: 0 .. MaxStack.
MaxStack == 3
\* Grids pulled from the stores during one call of coalesce_multi.
MaxGrids == 3
\* Grids pulled from the store during one call of coalesce_single.
MaxSingleGrids == 4
\* common.rs sets MAX_CONTEXTS (40 in the repository); it is scaled down here so
\* that the truncate of coalesce_single is reached.
MAX_CONTEXTS == 3

\* The length of the stacks of SpecDeep, and the grids read from their stores.
DeepLen == 4

MaxDeepGrids == 4

(***************************************************************************)
(* Program constants.                                                      *)
(***************************************************************************)
\* 0.25, "the smallest allowed relevance" window, in units of 0.01.
RelevWindow == 25
\* The 0.01 penalty of coalesce_multi, in units of 0.01.
Penalty == 1
\* The shift of idx in tmp_id.
TmpIdShift == 25
\* std::f64::MAX, the initial min_scoredist: above every scoredist drawn.
F64Max == 1000000

(***************************************************************************)
(* The values the inputs are drawn from.                                   *)
(***************************************************************************)
Idxs == 0 .. ((IF DeepLen > MaxStack THEN DeepLen ELSE MaxStack) - 1)
Zooms == {1, 2}
Masks == {0, 1, 2}
Weights == {50, 100}
Ids == {0, 1}
Xs == {0, 1}
Ys == {0}
Relevs == {50, 100}
Scoredists == {0, 1}

\* PhrasematchSubquery, without its store and match_key.
Subqueries == [idx : Idxs, zoom : Zooms, mask : Masks, weight : Weights]

\* MatchEntry: the GridEntry's id, x, y, relev and the scoredist.  matches_language
\* and distance are copied by the lifter and read nowhere in coalesce.
Grids == [id : Ids, x : Xs, y : Ys, relev : Relevs, scoredist : Scoredists]

(***************************************************************************)
(* Arithmetic helpers.                                                     *)
(***************************************************************************)
RECURSIVE Pow2(_)
Pow2(n) == IF n = 0 THEN 1 ELSE 2 * Pow2(n - 1)

\* u32 `a & b`.
RECURSIVE BitAnd(_, _)
BitAnd(a, b) ==
    IF a = 0 \/ b = 0 THEN 0
    ELSE (IF a % 2 = 1 /\ b % 2 = 1 THEN 1 ELSE 0) + 2 * BitAnd(a \div 2, b \div 2)

\* u32 `a | b`.
RECURSIVE BitOr(_, _)
BitOr(a, b) ==
    IF a = 0 THEN b
    ELSE IF b = 0 THEN a
    ELSE (IF a % 2 = 1 \/ b % 2 = 1 THEN 1 ELSE 0) + 2 * BitOr(a \div 2, b \div 2)

\* u32 `v << n`: the bits shifted past bit 31 are dropped.
Shl32(v, n) == (v % Pow2(32 - n)) * Pow2(n)

\* f64 `a * b` on the fixed-point values.
Mul(a, b) == (a * b) \div 100

\* Lexicographic a < b on tuples of integers of one length.
RECURSIVE LexLess(_, _)
LexLess(a, b) ==
    IF a = <<>> \/ b = <<>> THEN FALSE
    ELSE IF Head(a) < Head(b) THEN TRUE
    ELSE IF Head(a) > Head(b) THEN FALSE
    ELSE LexLess(Tail(a), Tail(b))

LexLeq(a, b) == a = b \/ LexLess(a, b)

\* slice::sort_by_key, a stable sort: keys[k] is the key of s[k].
StableSortBy(s, keys) ==
    LET n == Len(s)
        Rank(k) == 1 + Cardinality({j \in 1 .. n :
                        LexLess(keys[j], keys[k]) \/ (keys[j] = keys[k] /\ j < k)})
    IN  [r \in 1 .. n |-> s[CHOOSE k \in 1 .. n : Rank(k) = r]]

(***************************************************************************)
(* grid_to_coalesce_entry                                                  *)
(***************************************************************************)
TmpIdOf(idx, id) == Shl32(idx, TmpIdShift) + id

grid_to_coalesce_entry(grid, subquery) ==
    [id        |-> grid.id,
     x         |-> grid.x,
     y         |-> grid.y,
     relev     |-> Mul(grid.relev, subquery.weight),
     scoredist |-> grid.scoredist,
     idx       |-> subquery.idx,
     tmp_id    |-> TmpIdOf(subquery.idx, grid.id),
     mask      |-> subquery.mask]

(***************************************************************************)
(* The store's cursor: get_matching yields grids sorted by descending      *)
(* relev, then descending scoredist.                                       *)
(***************************************************************************)
StreamKey(g) == <<-g.relev, -g.scoredist>>

MayFollow(g) ==
    IF cursor = None THEN TRUE
    ELSE IF StreamKey(cursor.grid) = StreamKey(g) THEN g \notin cursor.tied
    ELSE LexLess(StreamKey(cursor.grid), StreamKey(g))

\* The cursor after it yields g: a store holds a grid once.
Yield(g) ==
    [grid |-> g,
     tied |-> IF cursor = None THEN {g}
              ELSE IF StreamKey(cursor.grid) = StreamKey(g) THEN cursor.tied \cup {g}
              ELSE {g}]

(***************************************************************************)
(* Contexts and their sort keys.                                           *)
(***************************************************************************)
Context(entries, mask, relev) == [entries |-> entries, mask |-> mask, relev |-> relev]

\* The key of coalesce_single's sort_by_key.
SingleKey(c) ==
    <<-c.relev, -c.entries[1].scoredist, c.entries[1].id, c.entries[1].x, c.entries[1].y>>

\* The key of coalesce_multi's sort_by_key.
MultiKey(c) ==
    <<-c.relev, -c.entries[1].scoredist, c.entries[1].idx, c.entries[1].id,
      c.entries[1].x, c.entries[1].y>>

SortSingle(cs) == StableSortBy(cs, [k \in 1 .. Len(cs) |-> SingleKey(cs[k])])

\* SortMulti with the relev not reversed.
SortMultiAscending(cs) ==
    StableSortBy(cs, [k \in 1 .. Len(cs) |->
        <<cs[k].relev, -cs[k].entries[1].scoredist, cs[k].entries[1].idx,
          cs[k].entries[1].id, cs[k].entries[1].x, cs[k].entries[1].y>>])

SortMulti(cs) == StableSortBy(cs, [k \in 1 .. Len(cs) |-> MultiKey(cs[k])])

\* Removal of every element whose key equals the key of the element before it
\* (Vec::dedup_by_key, Itertools::dedup): keys[k] is the key of s[k].
DedupByKey(s, keys) ==
    LET keep == {k \in 1 .. Len(s) : k = 1 \/ keys[k] # keys[k - 1]}
        Nth(r) == CHOOSE k \in keep : Cardinality({j \in keep : j < k}) = r - 1
    IN  [r \in 1 .. Cardinality(keep) |-> s[Nth(r)]]

\* contexts.dedup_by_key(|context| context.entries[0].grid_entry.id)
DedupById(cs) == DedupByKey(cs, [k \in 1 .. Len(cs) |-> cs[k].entries[1].id])

\* Vec::truncate.
Truncate(cs, n) == IF Len(cs) <= n THEN cs ELSE SubSeq(cs, 1, n)

(***************************************************************************)
(* coalesce: the finalizing loop                                           *)
(***************************************************************************)
\* FinalizeFrom pushing a context whether or not `sets` holds its lead tmp_id.
RECURSIVE FinalizeFromNoSet(_, _, _, _, _)
FinalizeFromNoSet(cs, k, relev_max, sets, acc) ==
    IF k > Len(cs) THEN acc
    ELSE IF Len(acc) >= MAX_CONTEXTS THEN acc
    ELSE IF relev_max - cs[k].relev >= RelevWindow THEN acc
    ELSE FinalizeFromNoSet(cs, k + 1, relev_max, sets, Append(acc, cs[k]))

\* FinalizeFrom without the break on the relevance window.
RECURSIVE FinalizeFromNoWindow(_, _, _, _, _)
FinalizeFromNoWindow(cs, k, relev_max, sets, acc) ==
    IF k > Len(cs) THEN acc
    ELSE IF Len(acc) >= MAX_CONTEXTS THEN acc
    ELSE IF cs[k].entries[1].tmp_id \in sets
         THEN FinalizeFromNoWindow(cs, k + 1, relev_max, sets, acc)
         ELSE FinalizeFromNoWindow(cs, k + 1, relev_max,
                                   sets \cup {cs[k].entries[1].tmp_id},
                                   Append(acc, cs[k]))

\* The loop over `contexts` from position k on, with the HashSet `sets` of lead
\* tmp_ids and the output so far.
RECURSIVE FinalizeFrom(_, _, _, _, _)
FinalizeFrom(cs, k, relev_max, sets, acc) ==
    IF k > Len(cs) THEN acc
    ELSE IF Len(acc) >= MAX_CONTEXTS THEN acc
    ELSE IF relev_max - cs[k].relev >= RelevWindow THEN acc
    ELSE IF cs[k].entries[1].tmp_id \in sets
         THEN FinalizeFrom(cs, k + 1, relev_max, sets, acc)
         ELSE FinalizeFrom(cs, k + 1, relev_max,
                           sets \cup {cs[k].entries[1].tmp_id}, Append(acc, cs[k]))

Finalized(cs) == IF cs = <<>> THEN <<>> ELSE FinalizeFrom(cs, 1, cs[1].relev, {}, <<>>)

(***************************************************************************)
(* Initial states: the caller's stack and match options.                   *)
(***************************************************************************)
\* A stack names each index once (coalesce_multi takes two subqueries of one idx
\* for the same subquery).  It arrives in any order and coalesce_multi sorts it
\* first: the stacks drawn hold their idx in descending order.
StacksOf(n) == {s \in [1 .. n -> Subqueries] : \A k \in 1 .. n : s[k].idx = n - k}

Stacks == UNION {StacksOf(n) : n \in 0 .. MaxStack}

\* Stacks of DeepLen subqueries of weight 1.0: the subquery of idx 0 at zoom 1,
\* the others at zoom 2, any masks.
DeepStacks ==
    {[k \in 1 .. DeepLen |->
        [idx |-> DeepLen - k, zoom |-> (IF k = DeepLen THEN 1 ELSE 2),
         mask |-> m[k], weight |-> 100]] : m \in [1 .. DeepLen -> Masks]}

\* The grids the stores of a stack of n subqueries yield.  The more subqueries,
\* the fewer fields vary: with two, every grid has relev 1.0 (the weights make the
\* entries differ); with three, the grids differ in their tile alone; with
\* DeepLen, in their tile and their id.
StoreGrids(n) ==
    {g \in Grids : /\ n >= 2 => g.relev = 100
                   /\ n >= 3 => g.scoredist = 0
                   /\ (n >= 3 /\ n # DeepLen) => g.id = 0}

\* The grids read in one call of coalesce_multi.
GridLimit(n) == IF n = DeepLen THEN MaxDeepGrids ELSE MaxGrids

NoLast == [id |-> 0, relev |-> 0, scoredist |-> 0]

Idle == [pc |-> "idle"]

Init ==
    /\ stack \in Stacks
    \* Only coalesce_single reads match_opts.proximity.
    /\ proximity \in (IF Len(stack) = 1 THEN BOOLEAN ELSE {FALSE})
    /\ pc = "start"
    /\ i = 0
    /\ pulled = 0
    /\ cursor = None
    /\ contexts = <<>>
    /\ coalesced = <<>>
    /\ built = None
    /\ max_relev = 0
    /\ last = NoLast
    /\ min_scoredist = F64Max
    /\ feature_count = 0
    /\ candidates = <<>>
    /\ out = <<>>
    /\ lift = {}
    /\ bb = Idle

(***************************************************************************)
(* coalesce: dispatch                                                      *)
(***************************************************************************)
\* stack.sort_by_key(|subquery| (subquery.zoom, subquery.idx))
SortStack(s) == StableSortBy(s, [k \in 1 .. Len(s) |-> <<s[k].zoom, s[k].idx>>])

\* `if stack.len() <= 1 { coalesce_single(&stack[0], ..) } else { coalesce_multi(..) }`:
\* on an empty stack stack[0] is out of bounds and the call panics.  Otherwise the
\* path is entered and its first stream opened.
Dispatch ==
    /\ pc = "start"
    /\ IF Len(stack) = 0
       THEN pc' = "panic" /\ UNCHANGED <<stack, i>>
       ELSE IF Len(stack) <= 1
       THEN pc' = "single" /\ UNCHANGED <<stack, i>>
       ELSE pc' = "multi" /\ stack' = SortStack(stack) /\ i' = 1
    /\ UNCHANGED <<proximity, pulled, cursor, contexts, coalesced, built, max_relev,
                   last, min_scoredist, feature_count, candidates, out, lift, bb>>

\* get_matching(..)? fails where a stream is opened: the error is returned and
\* the locals are dropped.
StoreError ==
    /\ \/ pc = "start" /\ Len(stack) >= 1
       \/ pc = "multi" /\ i < Len(stack)
    /\ pc' = "error"
    /\ cursor' = None
    /\ contexts' = <<>>
    /\ coalesced' = <<>>
    /\ built' = None
    /\ max_relev' = 0
    /\ pulled' = 0
    /\ UNCHANGED <<stack, proximity, i, last, min_scoredist, feature_count,
                   candidates, out, lift, bb>>

(***************************************************************************)
(* coalesce_single                                                         *)
(***************************************************************************)
bigger_max == 2 * MAX_CONTEXTS

\* What one turn of the loop does with the entry e: "skip" (continue), "stop"
\* (break before the push), "push" or "push_stop" (break after the push).
SingleVerdict(e) ==
    IF last.id = e.id /\ e.scoredist <= last.scoredist THEN "skip"
    ELSE IF feature_count > bigger_max /\ e.scoredist < min_scoredist THEN "skip"
    ELSE IF feature_count > bigger_max /\ e.relev < last.relev THEN "stop"
    ELSE IF max_relev - e.relev >= RelevWindow THEN "stop"
    ELSE IF ~proximity
            /\ feature_count + (IF last.id # e.id THEN 1 ELSE 0) > bigger_max
         THEN "push_stop"
    ELSE "push"

\* One turn of `for grid in grids`.
SingleGrid ==
    /\ pc = "single"
    /\ pulled < MaxSingleGrids
    /\ \E grid \in StoreGrids(1) :
        /\ MayFollow(grid)
        /\ LET e == grid_to_coalesce_entry(grid, stack[1])
               v == SingleVerdict(e)
           IN  /\ cursor' = Yield(grid)
               /\ pulled' = pulled + 1
               /\ pc' = IF v \in {"stop", "push_stop"} THEN "single_sort" ELSE "single"
               /\ IF v \in {"push", "push_stop"}
                  THEN /\ max_relev' = IF e.relev > max_relev THEN e.relev ELSE max_relev
                       /\ contexts' = Append(contexts, Context(<<e>>, e.mask, e.relev))
                       /\ feature_count' =
                              feature_count + (IF last.id # e.id THEN 1 ELSE 0)
                  ELSE UNCHANGED <<max_relev, contexts, feature_count>>
               /\ IF v = "push"
                  THEN /\ min_scoredist' =
                              IF e.scoredist < min_scoredist THEN e.scoredist
                              ELSE min_scoredist
                       /\ last' = [id |-> e.id, relev |-> e.relev,
                                   scoredist |-> e.scoredist]
                  ELSE UNCHANGED <<min_scoredist, last>>
    /\ UNCHANGED <<stack, proximity, i, coalesced, built, candidates, out, lift, bb>>

\* The stream ends, or the loop was left: sort, dedup, truncate and return.  The
\* loop's locals go out of scope.
SingleFinish ==
    /\ pc \in {"single", "single_sort"}
    /\ candidates' = Truncate(DedupById(SortSingle(contexts)), MAX_CONTEXTS)
    /\ pc' = "finalize"
    /\ cursor' = None
    /\ pulled' = 0
    /\ max_relev' = 0
    /\ last' = NoLast
    /\ min_scoredist' = F64Max
    /\ feature_count' = 0
    /\ UNCHANGED <<stack, proximity, i, contexts, coalesced, built, out, lift, bb>>

\* coalesce's loop over the returned contexts, and Ok(out).
Finalize ==
    /\ pc = "finalize"
    /\ out' = Finalized(candidates)
    /\ pc' = "done"
    /\ UNCHANGED <<stack, proximity, i, pulled, cursor, contexts, coalesced, built,
                   max_relev, last, min_scoredist, feature_count, candidates, lift, bb>>

(***************************************************************************)
(* coalesce_multi                                                          *)
(***************************************************************************)
\* The zooms of the subqueries of another idx and of a zoom not above that of
\* stack[k], in the order of the stack, consecutive repetitions removed.
compatible_zooms(s, k) ==
    LET kept == SelectSeq(s, LAMBDA b : ~(s[k].idx = b.idx \/ s[k].zoom < b.zoom))
        zs == [j \in 1 .. Len(kept) |-> kept[j].zoom]
    IN  DedupByKey(zs, zs)

\* The locals of the parent join: entries, context_mask, context_relev, and the
\* prev_mask and prev_relev of the lookup under way.
JoinState(entries, context_mask, context_relev, prev_mask, prev_relev) ==
    [entries |-> entries, context_mask |-> context_mask,
     context_relev |-> context_relev, prev_mask |-> prev_mask,
     prev_relev |-> prev_relev]

\* JoinEntry appending a parent entry whether or not its mask is free.
JoinEntryNoMaskCheck(st, pe) ==
    IF pe.mask = st.prev_mask /\ pe.relev > st.prev_relev
    THEN JoinState(Append(SubSeq(st.entries, 1, Len(st.entries) - 1), pe),
                   st.context_mask,
                   st.context_relev - st.prev_relev + pe.relev,
                   pe.mask, pe.relev)
    ELSE JoinState(Append(st.entries, pe),
                   BitOr(st.context_mask, pe.mask),
                   st.context_relev + pe.relev,
                   pe.mask, pe.relev)

\* The body of `for parent_entry in &parent_context.entries`.
JoinEntry(st, pe) ==
    IF pe.mask = st.prev_mask /\ pe.relev > st.prev_relev
    THEN \* replace: entries.pop(); entries.push(parent_entry)
         JoinState(Append(SubSeq(st.entries, 1, Len(st.entries) - 1), pe),
                   st.context_mask,
                   st.context_relev - st.prev_relev + pe.relev,
                   pe.mask, pe.relev)
    ELSE IF BitAnd(st.context_mask, pe.mask) = 0
    THEN \* append
         JoinState(Append(st.entries, pe),
                   BitOr(st.context_mask, pe.mask),
                   st.context_relev + pe.relev,
                   pe.mask, pe.relev)
    ELSE st

RECURSIVE JoinEntries(_, _, _)
JoinEntries(st, pes, k) ==
    IF k > Len(pes) THEN st ELSE JoinEntries(JoinEntry(st, pes[k]), pes, k + 1)

\* `for parent_context in already_coalesced`
RECURSIVE JoinContexts(_, _, _)
JoinContexts(st, pcs, k) ==
    IF k > Len(pcs) THEN st
    ELSE JoinContexts(JoinEntries(st, pcs[k].entries, 1), pcs, k + 1)

\* `for other_zoom in compatible_zooms.iter()`, from the k-th zoom on, with the
\* map `map` and the zoom `zoom` of the subquery being read.
RECURSIVE JoinZooms(_, _, _, _, _)
JoinZooms(st, map, zoom, zs, k) ==
    IF k > Len(zs) THEN st
    ELSE LET scale_factor == Pow2(zoom - zs[k])
             other_zxy == <<zs[k], st.entries[1].x \div scale_factor,
                            st.entries[1].y \div scale_factor>>
         IN  IF other_zxy \in DOMAIN map
             THEN JoinZooms(JoinContexts(JoinState(st.entries, st.context_mask,
                                                   st.context_relev, 0, 0),
                                         map[other_zxy], 1),
                            map, zoom, zs, k + 1)
             ELSE JoinZooms(st, map, zoom, zs, k + 1)

\* The entries, mask and relev built from the entry e of stack[k], before the
\* dispatch.
ParentJoin(e, map, s, k) ==
    JoinZooms(JoinState(<<e>>, e.mask, e.relev, 0, 0), map, s[k].zoom,
              compatible_zooms(s, k), 1)

\* The penalty of a context of the last subquery.
PenaltyOf(entries) ==
    IF Len(entries) = 1 THEN Penalty
    ELSE IF entries[1].mask > entries[2].mask THEN Penalty
    ELSE 0

\* coalesced[zxy].push(c), or coalesced.insert(zxy, vec![c]).
MapPush(map, zxy, c) ==
    [key \in DOMAIN map \cup {zxy} |->
        IF key = zxy
        THEN (IF zxy \in DOMAIN map THEN Append(map[zxy], c) ELSE <<c>>)
        ELSE map[key]]

\* One turn of `for grid in grids.take(100_000)`; MaxGrids is below that cap.
MultiGrid ==
    /\ pc = "multi"
    /\ pulled < GridLimit(Len(stack))
    /\ \E grid \in StoreGrids(Len(stack)) :
        /\ MayFollow(grid)
        /\ LET subquery == stack[i]
               e == grid_to_coalesce_entry(grid, subquery)
               zxy == <<subquery.zoom, grid.x, grid.y>>
               st == ParentJoin(e, coalesced, stack, i)
               raised == IF st.context_relev > max_relev THEN st.context_relev
                         ELSE max_relev
               is_last == i = Len(stack)
               relev == IF is_last THEN st.context_relev - PenaltyOf(st.entries)
                        ELSE st.context_relev
               c == Context(st.entries, st.context_mask, relev)
           IN  /\ cursor' = Yield(grid)
               /\ pulled' = pulled + 1
               /\ max_relev' = raised
               /\ built' = c
               /\ IF is_last
                  THEN /\ contexts' = IF raised - relev < RelevWindow
                                      THEN Append(contexts, c) ELSE contexts
                       /\ UNCHANGED coalesced
                  ELSE /\ coalesced' = IF i = 1 \/ Len(st.entries) > 1
                                       THEN MapPush(coalesced, zxy, c) ELSE coalesced
                       /\ UNCHANGED contexts
    /\ UNCHANGED <<stack, proximity, pc, i, last, min_scoredist, feature_count,
                   candidates, out, lift, bb>>

\* The stream of stack[i] ends: the stream of the next subquery is opened.
MultiNext ==
    /\ pc = "multi"
    /\ i < Len(stack)
    /\ i' = i + 1
    /\ cursor' = None
    /\ built' = None
    /\ UNCHANGED <<stack, proximity, pc, pulled, contexts, coalesced, max_relev,
                   last, min_scoredist, feature_count, candidates, out, lift, bb>>

\* The orders in which a HashMap of the keys `keys` can be iterated.
Orders(keys) ==
    {o \in [1 .. Cardinality(keys) -> keys] :
        \A a, b \in 1 .. Cardinality(keys) : a # b => o[a] # o[b]}

InWindow(c) == max_relev - c.relev < RelevWindow

\* The contexts the final sweep pushes when it visits the keys in `order`, from
\* the k-th key on.
RECURSIVE SweepIn(_, _)
SweepIn(order, k) ==
    IF k > Len(order) THEN <<>>
    ELSE SelectSeq(coalesced[order[k]], InWindow) \o SweepIn(order, k + 1)

\* What coalesce_multi returns when the HashMap iterates in `order`: the contexts
\* of the loop, then those of the sweep, sorted.
Swept(order) == SortMulti(contexts \o SweepIn(order, 1))

\* The stream of the last subquery ends: the sweep of `coalesced`, in the order
\* the HashMap happens to iterate, then the sort, and Ok(contexts).
MultiFinish ==
    /\ pc = "multi"
    /\ i = Len(stack)
    /\ \E order \in Orders(DOMAIN coalesced) : candidates' = Swept(order)
    /\ pc' = "finalize"
    /\ cursor' = None
    /\ pulled' = 0
    /\ built' = None
    /\ UNCHANGED <<stack, proximity, i, contexts, coalesced, max_relev, last,
                   min_scoredist, feature_count, out, lift, bb>>

Next ==
    \/ Dispatch
    \/ StoreError
    \/ SingleGrid
    \/ SingleFinish
    \/ MultiGrid
    \/ MultiNext
    \/ MultiFinish
    \/ Finalize

Spec == Init /\ [][Next]_vars

\* coalesce on the stacks of DeepLen subqueries.
InitDeep ==
    /\ stack \in DeepStacks
    /\ proximity = FALSE
    /\ pc = "start"
    /\ i = 0
    /\ pulled = 0
    /\ cursor = None
    /\ contexts = <<>>
    /\ coalesced = <<>>
    /\ built = None
    /\ max_relev = 0
    /\ last = NoLast
    /\ min_scoredist = F64Max
    /\ feature_count = 0
    /\ candidates = <<>>
    /\ out = <<>>
    /\ lift = {}
    /\ bb = Idle

NextDeep ==
    \/ Dispatch
    \/ StoreError
    \/ MultiGrid
    \/ MultiNext
    \/ MultiFinish
    \/ Finalize

SpecDeep == InitDeep /\ [][NextDeep]_vars

(***************************************************************************)
(* grid_to_coalesce_entry on its own: the entries it builds from subqueries *)
(* and grids of any idx: u16 and id: u32, in a set.                        *)
(***************************************************************************)
\* The number of entries built.
MaxLifted == 3

\* idx: u16 is not checked against the 7 bits left above the shift.
LiftIdxs == {0, 1, 2, Pow2(32 - TmpIdShift)}

\* id: u32 is not checked against the 25 bits below the shift.
LiftIds == {0, 1, Pow2(TmpIdShift) - 1, Pow2(TmpIdShift)}

InitLift ==
    /\ stack = <<>>
    /\ proximity = FALSE
    /\ pc = "idle"
    /\ i = 0
    /\ pulled = 0
    /\ cursor = None
    /\ contexts = <<>>
    /\ coalesced = <<>>
    /\ built = None
    /\ max_relev = 0
    /\ last = NoLast
    /\ min_scoredist = F64Max
    /\ feature_count = 0
    /\ candidates = <<>>
    /\ out = <<>>
    /\ lift = {}
    /\ bb = Idle

Lift ==
    /\ Cardinality(lift) < MaxLifted
    /\ \E idx \in LiftIdxs, id \in LiftIds, weight \in Weights :
          LET subquery == [idx |-> idx, zoom |-> 1, mask |-> 1, weight |-> weight]
              grid == [id |-> id, x |-> 0, y |-> 0, relev |-> 100, scoredist |-> 0]
          IN  lift' = lift \cup {grid_to_coalesce_entry(grid, subquery)}
    /\ UNCHANGED <<stack, proximity, pc, i, pulled, cursor, contexts, coalesced,
                   built, max_relev, last, min_scoredist, feature_count,
                   candidates, out, bb>>

NextLift == Lift

SpecLift == InitLift /\ [][NextLift]_vars

(***************************************************************************)
(* bbox_filter over a vector of coords.                                    *)
(***************************************************************************)
\* The length of the coord vector.
MaxLen == 4

\* The largest coord stored and the largest x and y of a bbox.
MaxCoord == 4

MaxXY == 1

\* morton::interleave_morton: the bits of x above those of y, pair by pair.
RECURSIVE interleave_morton(_, _)
interleave_morton(x, y) ==
    IF x = 0 /\ y = 0 THEN 0
    ELSE 2 * (x % 2) + (y % 2) + 4 * interleave_morton(x \div 2, y \div 2)

Ok(v) == [ok |-> TRUE, v |-> v]

Err(v) == [ok |-> FALSE, v |-> v]

Panic == [panic |-> TRUE]

\* `while size > 1`; coords.get(k) of the source is cs[k + 1].
RECURSIVE SearchLoop(_, _, _, _)
SearchLoop(cs, val, base, size) ==
    IF size > 1
    THEN LET half == size \div 2
             mid == base + half
         IN  SearchLoop(cs, val, IF cs[mid + 1] > val THEN base ELSE mid, size - half)
    ELSE base

\* bbox_binary_search giving Err(base + 1) whatever the last comparison.
bbox_binary_search_ErrAbove(cs, val, offset) ==
    IF Len(cs) < offset THEN Panic
    ELSE IF Len(cs) - offset = 0 THEN Err(offset)
    ELSE LET base == SearchLoop(cs, val, offset, Len(cs) - offset)
         IN  IF cs[base + 1] = val THEN Ok(base) ELSE Err(base + 1)

\* bbox_binary_search giving the index after the one found.
bbox_binary_search_OkAbove(cs, val, offset) ==
    IF Len(cs) < offset THEN Panic
    ELSE IF Len(cs) - offset = 0 THEN Err(offset)
    ELSE LET base == SearchLoop(cs, val, offset, Len(cs) - offset)
         IN  IF cs[base + 1] = val THEN Ok(base + 1)
             ELSE Err(base + (IF cs[base + 1] < val THEN 1 ELSE 0))

bbox_binary_search(cs, val, offset) ==
    IF Len(cs) < offset THEN Panic
    ELSE IF Len(cs) - offset = 0 THEN Err(offset)
    ELSE LET base == SearchLoop(cs, val, offset, Len(cs) - offset)
         IN  IF cs[base + 1] = val THEN Ok(base)
             ELSE Err(base + (IF cs[base + 1] < val THEN 1 ELSE 0))

\* Vectors of coords in ascending order, repetitions allowed.
CoordVectors ==
    UNION {{cs \in [1 .. n -> 0 .. MaxCoord] :
              \A k \in 1 .. n - 1 : cs[k] <= cs[k + 1]} : n \in 0 .. MaxLen}

Bboxes == [1 .. 4 -> 0 .. MaxXY]

BboxState(p, cs, bbox, dbg, min, max, start, end, result) ==
    [pc |-> p, coords |-> cs, bbox |-> bbox, debug_assertions |-> dbg,
     min |-> min, max |-> max, start |-> start, end |-> end, result |-> result]

InitBbox ==
    /\ stack = <<>>
    /\ proximity = FALSE
    /\ pc = "idle"
    /\ i = 0
    /\ pulled = 0
    /\ cursor = None
    /\ contexts = <<>>
    /\ coalesced = <<>>
    /\ built = None
    /\ max_relev = 0
    /\ last = NoLast
    /\ min_scoredist = F64Max
    /\ feature_count = 0
    /\ candidates = <<>>
    /\ out = <<>>
    /\ lift = {}
    /\ \E cs \in CoordVectors, bbox \in Bboxes, dbg \in BOOLEAN :
          bb = BboxState("enter", cs, bbox, dbg, 0, 0, 0, 0, <<>>)

BboxUnchanged ==
    UNCHANGED <<stack, proximity, pc, i, pulled, cursor, contexts, coalesced,
                built, max_relev, last, min_scoredist, feature_count,
                candidates, out, lift>>

\* min, max and the first debug_assert, which a release build leaves out.
BboxEnter ==
    /\ bb.pc = "enter"
    /\ LET min == interleave_morton(bb.bbox[1], bb.bbox[2])
           max == interleave_morton(bb.bbox[3], bb.bbox[4])
       IN  bb' = [bb EXCEPT !.min = min, !.max = max,
                            !.pc = IF bb.debug_assertions /\ min > max
                                   THEN "panic" ELSE "lower"]
    /\ BboxUnchanged

\* let start = match bbox_binary_search(&coords, min, 0)
BboxLower ==
    /\ bb.pc = "lower"
    /\ LET r == bbox_binary_search(bb.coords, bb.min, 0)
       IN  bb' = IF r = Panic THEN [bb EXCEPT !.pc = "panic"]
                 ELSE [bb EXCEPT !.start = r.v, !.pc = "upper"]
    /\ BboxUnchanged

\* let end = match bbox_binary_search(&coords, max, start), and the second
\* debug_assert.
BboxUpper ==
    /\ bb.pc = "upper"
    /\ LET r == bbox_binary_search(bb.coords, bb.max, bb.start)
       IN  bb' = IF r = Panic THEN [bb EXCEPT !.pc = "panic"]
                 ELSE [bb EXCEPT !.end = r.v,
                                 !.pc = IF bb.debug_assertions /\ bb.start > r.v
                                        THEN "panic" ELSE "collect"]
    /\ BboxUnchanged

\* (start..end).map(|idx| coords.get(idx)), collected; the range is empty when
\* start is not below end.
BboxCollect ==
    /\ bb.pc = "collect"
    /\ bb' = [bb EXCEPT !.result = [k \in 1 .. (IF bb.end > bb.start
                                                THEN bb.end - bb.start ELSE 0) |->
                                       bb.coords[bb.start + k]],
                        !.pc = "done"]
    /\ BboxUnchanged

NextBbox ==
    \/ BboxEnter
    \/ BboxLower
    \/ BboxUpper
    \/ BboxCollect

SpecBbox == InitBbox /\ [][NextBbox]_vars

(***************************************************************************)
(* Properties of coalesce.                                                 *)
(***************************************************************************)
Multi == Len(stack) >= 2

Single == Len(stack) = 1

LeadTmpId(c) == c.entries[1].tmp_id

\* The documented key of a returned context.
DocumentedKey(c) ==
    <<-c.relev, -c.entries[1].scoredist, c.entries[1].idx, c.entries[1].id,
      c.entries[1].x, c.entries[1].y>>

\* a is b with some elements left out, the others in their order.
RECURSIVE IsSubsequence(_, _)
IsSubsequence(a, b) ==
    IF a = <<>> THEN TRUE
    ELSE IF b = <<>> THEN FALSE
    ELSE IF Head(a) = Head(b) THEN IsSubsequence(Tail(a), Tail(b))
    ELSE IsSubsequence(a, Tail(b))

\* Every list the sweep of coalesce_multi may push onto the contexts of the loop.
Unsorted == {contexts \o SweepIn(order, 1) : order \in Orders(DOMAIN coalesced)}

\* C1: the list coalesce returns is sorted by the documented key, and it is the
\* list of coalesce_single / coalesce_multi with contexts left out, none moved.
C1_OutputSorted ==
    pc = "done" =>
        /\ \A k \in 1 .. Len(out) - 1 :
              LexLeq(DocumentedKey(out[k]), DocumentedKey(out[k + 1]))
        /\ IsSubsequence(out, candidates)

\* A multi-phrase call returned two contexts of different relev that the sort had
\* to put in order, and the finalizer left a candidate out.
C1_Witness ==
    /\ pc = "done"
    /\ Multi
    /\ Len(out) >= 2
    /\ out[1].relev > out[2].relev
    /\ Len(out) < Len(candidates)
    /\ candidates \notin Unsorted

\* C2: no two returned contexts share their lead tmp_id, and a returned context
\* is the first candidate of its lead tmp_id.
C2_LeadTmpIdsDistinct ==
    pc = "done" =>
        /\ \A a, b \in 1 .. Len(out) :
              a # b => LeadTmpId(out[a]) # LeadTmpId(out[b])
        /\ \A k \in 1 .. Len(out) :
              \E j \in 1 .. Len(candidates) :
                  /\ out[k] = candidates[j]
                  /\ \A h \in 1 .. j - 1 : LeadTmpId(candidates[h]) # LeadTmpId(out[k])

\* Two different candidates inside the window share their lead tmp_id, the cap was
\* not reached, and the first of them was returned.
C2_Witness ==
    /\ pc = "done"
    /\ Len(out) < MAX_CONTEXTS
    /\ \E a, b \in 1 .. Len(candidates) :
          /\ a < b
          /\ candidates[a] # candidates[b]
          /\ LeadTmpId(candidates[a]) = LeadTmpId(candidates[b])
          /\ candidates[1].relev - candidates[b].relev < RelevWindow
          /\ \E k \in 1 .. Len(out) : out[k] = candidates[a]

MasksDisjoint(entries) ==
    \A a, b \in 1 .. Len(entries) :
        a # b => BitAnd(entries[a].mask, entries[b].mask) = 0

\* Every context coalesce_multi holds: the one just built, those stored in the
\* map, those pushed, those returned.
MultiContexts ==
    (IF built = None THEN {} ELSE {built})
    \cup UNION {{coalesced[key][k] : k \in 1 .. Len(coalesced[key])} :
                  key \in DOMAIN coalesced}
    \cup {contexts[k] : k \in 1 .. Len(contexts)}
    \cup {candidates[k] : k \in 1 .. Len(candidates)}
    \cup {out[k] : k \in 1 .. Len(out)}

RECURSIVE EntriesMask(_)
EntriesMask(entries) ==
    IF entries = <<>> THEN 0
    ELSE BitOr(Head(entries).mask, EntriesMask(Tail(entries)))

C4_WithinWindow ==
    pc = "done" => \A k \in 1 .. Len(out) : out[1].relev - out[k].relev < RelevWindow

\* A multi-phrase call returned a penalized context and left out a candidate that
\* is 0.25 or more below the first.
C4_Witness ==
    /\ pc = "done"
    /\ Multi
    /\ \E k \in 1 .. Len(out) : out[k].relev % 50 # 0
    /\ \E k \in 1 .. Len(candidates) :
          candidates[1].relev - candidates[k].relev >= RelevWindow

\* C5: whatever the order in which the sweep iterates the map, coalesce returns
\* the list it returned.
C5_Deterministic ==
    (pc = "done" /\ Multi) =>
        \A order \in Orders(DOMAIN coalesced) : out = Finalized(Swept(order))

\* C6: on an empty stack coalesce returns the empty list.
C6_EmptyStackReturnsEmpty ==
    (Len(stack) = 0 /\ pc # "start") => (pc = "done" /\ out = <<>>)

LeadId(c) == c.entries[1].id

\* C9: the list coalesce_single returns holds at most one context per feature id,
\* the first of that id in the sorted contexts.
C9_OnePerFeature ==
    (Single /\ pc \in {"finalize", "done"}) =>
        /\ \A a, b \in 1 .. Len(candidates) :
              a # b => LeadId(candidates[a]) # LeadId(candidates[b])
        /\ \A k \in 1 .. Len(candidates) :
              \E j \in 1 .. Len(contexts) :
                  /\ candidates[k] = SortSingle(contexts)[j]
                  /\ \A h \in 1 .. j - 1 :
                        LeadId(SortSingle(contexts)[h]) # LeadId(candidates[k])

\* A turn of the loop of coalesce_single that pushed nothing and went on.
SingleSkip ==
    /\ pc = "single"
    /\ pc' = "single"
    /\ pulled' = pulled + 1
    /\ contexts' = contexts

\* The skip of this turn is the same-feature dedup's (the other skip needs
\* feature_count > bigger_max), and the entry accepted last, the last one
\* pushed, has the id of the grid skipped and a scoredist not below its own.
SkipAfterAccepted ==
    \/ feature_count > bigger_max
    \/ /\ contexts # <<>>
       /\ contexts[Len(contexts)].entries[1].id = cursor'.grid.id
       /\ contexts[Len(contexts)].entries[1].scoredist >= cursor'.grid.scoredist

\* C11: the same-feature dedup of coalesce_single skips a grid only after an
\* accepted grid of the same id and of a scoredist not below its own, so the
\* first grid of a stream is not skipped and a stream of one grid or more
\* yields one context or more.
C11_DedupAfterAccepted ==
    /\ []((pc \in {"single", "single_sort"} /\ pulled >= 1) => contexts # <<>>)
    /\ [][SingleSkip => SkipAfterAccepted]_vars

(***************************************************************************)
(* Properties of grid_to_coalesce_entry.                                   *)
(***************************************************************************)
\* C8: every entry built has tmp_id = (idx << 25) | id as a 32-bit value, and
\* entries of different (idx, id) have different tmp_ids.
C8_TmpIdPacked ==
    /\ \A e \in lift : e.tmp_id = BitOr(Shl32(e.idx, TmpIdShift), e.id)
    /\ \A a, b \in lift :
          <<a.idx, a.id>> # <<b.idx, b.id>> => a.tmp_id # b.tmp_id

(***************************************************************************)
(* Properties of bbox_filter.                                              *)
(***************************************************************************)
BboxValid == bb.min <= bb.max

Distinct(cs) == \A a, b \in 1 .. Len(cs) : a # b => cs[a] # cs[b]

\* The first 0-based index of a coord not below val, or the length.
FirstAtLeast(cs, val) ==
    IF \E k \in 1 .. Len(cs) : cs[k] >= val
    THEN (CHOOSE k \in 1 .. Len(cs) :
              cs[k] >= val /\ \A h \in 1 .. k - 1 : cs[h] < val) - 1
    ELSE Len(cs)

\* The first 0-based index of a coord above val, or the length.
FirstAbove(cs, val) ==
    IF \E k \in 1 .. Len(cs) : cs[k] > val
    THEN (CHOOSE k \in 1 .. Len(cs) :
              cs[k] > val /\ \A h \in 1 .. k - 1 : cs[h] <= val) - 1
    ELSE Len(cs)

\* C7: on a vector in ascending order and a bbox with min <= max no assertion
\* fires, start <= end <= len, the coords returned are those of the indices
\* start .. end - 1, and each is in [min, max].
C7_BboxRange ==
    (bb.pc \notin {"enter", "lower"} /\ BboxValid) =>
        /\ bb.pc # "panic"
        /\ bb.pc \in {"collect", "done"} =>
              (bb.start <= bb.end /\ bb.end <= Len(bb.coords))
        /\ bb.pc = "done" =>
              /\ bb.result = SubSeq(bb.coords, bb.start + 1, bb.end)
              /\ \A k \in 1 .. Len(bb.result) :
                    bb.min <= bb.result[k] /\ bb.result[k] <= bb.max

\* A vector with a repeated coord, coords below min and coords above max, of
\* which bbox_filter returned some.
C7_Witness ==
    /\ bb.pc = "done"
    /\ BboxValid
    /\ ~Distinct(bb.coords)
    /\ bb.result # <<>>
    /\ bb.start > 0
    /\ bb.end < Len(bb.coords)
    /\ bb.coords[1] < bb.min
    /\ bb.coords[Len(bb.coords)] > bb.max

\* C10 as stated: with distinct coords start is the first index of a coord
\* >= min, end the first index of a coord > max, and the coords returned are
\* the stored coords in [min, max].
C10_UpperAboveMax ==
    (bb.pc = "done" /\ BboxValid /\ Distinct(bb.coords)) =>
        /\ bb.start = FirstAtLeast(bb.coords, bb.min)
        /\ bb.end = FirstAbove(bb.coords, bb.max)
        /\ bb.result = SelectSeq(bb.coords, LAMBDA c : bb.min <= c /\ c <= bb.max)

\* C10 amended: with distinct coords start is the first index of a coord
\* >= min, end the first index of a coord >= max, and the coords returned are
\* the stored coords in [min, max): a stored coord equal to max is left out.
C10_UpperAtMax ==
    (bb.pc = "done" /\ BboxValid /\ Distinct(bb.coords)) =>
        /\ bb.start = FirstAtLeast(bb.coords, bb.min)
        /\ bb.end = FirstAtLeast(bb.coords, bb.max)
        /\ bb.result = SelectSeq(bb.coords, LAMBDA c : bb.min <= c /\ c < bb.max)

\* Distinct coords with max stored: bbox_filter returned the coords below it.
C10_Witness ==
    /\ bb.pc = "done"
    /\ BboxValid
    /\ Distinct(bb.coords)
    /\ bb.result # <<>>
    /\ \E k \in 1 .. Len(bb.coords) : bb.coords[k] = bb.max
    /\ bb.end < Len(bb.coords)

====
